---- MODULE Spec2Model ----
(***************************************************************************)
(* SocialClip Downloader (src/socialclip_downloader.py).                   *)
(*                                                                         *)
(* Paths and file names are sequences of one-character strings, so that    *)
(* os.path.join, os.path.split, os.path.splitext and str(int) are modelled *)
(* by what they do on the characters.  The disk is the set of paths that   *)
(* exist.  The external tools (yt-dlp, ffprobe, ffmpeg) are the            *)
(* environment: each call returns, fails or raises nondeterministically.   *)
(***************************************************************************)
EXTENDS Integers, Sequences, FiniteSets, TLC

(***************************************************************************)
(* Characters and strings                                                  *)
(***************************************************************************)
SEP == "/"

DOT == <<".">>

USCORE == <<"_">>

Digits == <<"0", "1", "2", "3", "4", "5", "6", "7", "8", "9">>

RECURSIVE IntToStr(_)
\* str(i) / f"{i}" for i >= 0
IntToStr(n) ==
  IF n < 10 THEN <<Digits[n + 1]>>
  ELSE IntToStr(n \div 10) \o <<Digits[(n % 10) + 1]>>

\* the largest index of character c in p, 0 when there is none (str.rfind + 1)
LastIndexOf(p, c) ==
  LET hits == {i \in 1..Len(p) : p[i] = c}
  IN  IF hits = {} THEN 0 ELSE CHOOSE i \in hits : \A j \in hits : j <= i

\* posixpath.join(a, b)
os_path_join(a, b) ==
  IF b # <<>> /\ Head(b) = SEP THEN b
  ELSE IF a = <<>> \/ a[Len(a)] = SEP THEN a \o b
  ELSE a \o <<SEP>> \o b

RECURSIVE RStripSep(_)
\* head.rstrip('/')
RStripSep(p) ==
  IF p # <<>> /\ p[Len(p)] = SEP THEN RStripSep(SubSeq(p, 1, Len(p) - 1)) ELSE p

\* posixpath.split(p): <<head, tail>>
os_path_split(p) ==
  LET i    == LastIndexOf(p, SEP)
      head == SubSeq(p, 1, i)
      tail == SubSeq(p, i + 1, Len(p))
  IN  IF head # <<>> /\ (\E k \in 1..Len(head) : head[k] # SEP)
      THEN <<RStripSep(head), tail>>
      ELSE <<head, tail>>

os_path_basename(p) == os_path_split(p)[2]

\* posixpath.splitext(p): <<root, ext>>, ext empty or starting with a dot;
\* leading dots of the last component are not an extension
os_path_splitext(p) ==
  LET sep == LastIndexOf(p, SEP)
      dot == LastIndexOf(p, ".")
  IN  IF dot > sep /\ (\E k \in (sep + 1)..(dot - 1) : p[k] # ".")
      THEN <<SubSeq(p, 1, dot - 1), SubSeq(p, dot, Len(p))>>
      ELSE <<p, <<>>>>

\* ext.lstrip('.')
RECURSIVE LStripDot(_)
LStripDot(s) ==
  IF s # <<>> /\ Head(s) = "." THEN LStripDot(Tail(s)) ELSE s

(***************************************************************************)
(* make_unique_filepath                                                    *)
(***************************************************************************)
\* An optional string argument: None, or a string (possibly empty).
NoneId == [none |-> TRUE, s |-> <<>>]

SomeId(s) == [none |-> FALSE, s |-> s]

\* Python truthiness of an optional string: `if fallback_id:`
Truthy(f) == ~f.none /\ f.s # <<>>

\* os.path.join(save_dir, f"{base_filename}.{ext}")
PlainCandidate(save_dir, base, ext) ==
  os_path_join(save_dir, base \o DOT \o ext)

\* os.path.join(save_dir, f"{base_filename}_{fallback_id}.{ext}")
IdCandidate(save_dir, base, ext, fid) ==
  os_path_join(save_dir, base \o USCORE \o fid \o DOT \o ext)

\* os.path.join(save_dir, f"{base_filename}_{i}.{ext}")
NumCandidate(save_dir, base, ext, i) ==
  os_path_join(save_dir, base \o USCORE \o IntToStr(i) \o DOT \o ext)

\* i = 1
FirstSuffix == 1

\* mutant: the fallback id is tried whether or not it is empty
UseIdAlways(f) == ~f.none

\* `if fallback_id:`
UseId(f) == Truthy(f)

\* mutant: the candidate is returned without looking at the disk
ExistsNever(path, existing) == FALSE

\* os.path.exists(path) on a disk holding `existing`
os_path_exists(path, existing) == path \in existing

RECURSIVE NumericLoop(_, _, _, _, _)
\* the `while True` loop, entered with i
NumericLoop(save_dir, base, ext, existing, i) ==
  LET candidate3 == NumCandidate(save_dir, base, ext, i)
  IN  IF ~os_path_exists(candidate3, existing) THEN candidate3
      ELSE NumericLoop(save_dir, base, ext, existing, i + 1)

make_unique_filepath(save_dir, base, ext, fallback_id, existing) ==
  LET candidate  == PlainCandidate(save_dir, base, ext)
      candidate2 == IdCandidate(save_dir, base, ext, fallback_id.s)
  IN  IF ~os_path_exists(candidate, existing) THEN candidate
      ELSE IF UseId(fallback_id) /\ ~os_path_exists(candidate2, existing)
           THEN candidate2
      ELSE NumericLoop(save_dir, base, ext, existing, FirstSuffix)

(***************************************************************************)
(* Program constants and the bounds of the model                           *)
(***************************************************************************)
EXT_MP4 == <<"m", "p", "4">>

EXT_WEBM == <<"w", "e", "b", "m">>

EXT_MP3 == <<"m", "p", "3">>

EXT_WAV == <<"w", "a", "v">>

\* the items of resolution_combo and conv_res_combo
Resolutions == {720, 1080, 1440, 2160}

\* target_resolution=None
NoResolution == -1

\* the save folder of the session
SaveDir == <<"d">>

\* the URLs a DownloadWorker may be given
Urls == {"u1", "u2"}

\* the URLs pasted into url_input
PastedUrls == {"u1"}

\* what the extractor reports for a URL (extract_info / prepare_filename):
\* base is the cleaned base file name built from the title, id
\* info.get('id') or '', ext the container extension, height the real height
\* of the video and has_height whether info carries a 'height'
VideoInfo(url) ==
  IF url = "u1"
  THEN [base |-> <<"a">>, id |-> <<"x">>, ext |-> EXT_WEBM, height |-> 480,
        has_height |-> FALSE]
  ELSE [base |-> <<"a">>, id |-> <<>>, ext |-> EXT_MP4, height |-> 1080,
        has_height |-> TRUE]

\* how many times the two buttons are clicked in a run of the model
MaxClicks == 2

\* the numeric names <base>_1 .. <base>_MaxSuffix may exist before a call of
\* make_unique_filepath
MaxSuffix == 3

\* ... or all of <base>_1 .. <base>_ManyTaken do
ManyTaken == 10

\* output types of the two dialogs
DownloadTypes == {"MP4", "MP3"}

ConvertTypes == {"MP4", "MP3", "WAV"}

\* what a blocking ffmpeg call can do: not start (subprocess.run raises),
\* end with exit code 0 and the output written, or end with a non-zero exit
\* code and nothing written
FfmpegOutcomes == {"raise", "ok", "fail"}

(***************************************************************************)
(* State                                                                   *)
(***************************************************************************)
VARIABLES
  disk,              \* the files that exist: path -> real video height (0: no video stream)
  dl,                \* self.worker: the DownloadWorker and the history of its run
  cv,                \* self.conv_worker: the ConvertFileWorker and the history of its run
  download_btn,      \* download_btn.isEnabled()
  convert_file_btn,  \* convert_file_btn.isEnabled()
  dlPending,         \* finished_signal emissions of DownloadWorkers queued for the GUI thread
  cvPending,         \* finished_signal emissions of ConvertFileWorkers queued for the GUI thread
  dlLinger,          \* DownloadWorker threads whose reference was replaced before they ended
  cvLinger,          \* ConvertFileWorker threads whose reference was replaced before they ended
  nDownloads,        \* workers started by on_download
  nConverts,         \* workers started by on_convert_file
  mu_args,           \* arguments of a call of make_unique_filepath
  mu_result          \* its result (<<>> before the call)

vars == <<disk, dl, cv, download_btn, convert_file_btn, dlPending, cvPending,
          dlLinger, cvLinger, nDownloads, nConverts, mu_args, mu_result>>

appVars == <<disk, dl, cv, download_btn, convert_file_btn, dlPending, cvPending,
             dlLinger, cvLinger, nDownloads, nConverts>>

guiVars == <<download_btn, convert_file_btn, dlLinger, cvLinger, nDownloads, nConverts>>

muVars == <<mu_args, mu_result>>

Exists(p) == os_path_exists(p, DOMAIN disk)

\* the disk d after path p was created or replaced by a file of height h
Put(d, p, h) == [q \in DOMAIN d \cup {p} |-> IF q = p THEN h ELSE d[q]]

EmptyDisk == [q \in {} |-> 0]

\* a worker thread that has not emitted finished_signal yet
Active(w) == w.pc \in {"start", "fetched", "probed"}

\* a worker thread that has not ended
Alive(w) == w.pc \in {"start", "fetched", "probed", "emitted"}

\* the history of one run of a worker: the message emitted and the path it
\* names, the emissions, whether an exception reached the handler, the
\* external calls made, the exit of the ffmpeg run, <<target, real source
\* height>> of a scaling ffmpeg run, the paths written, the paths that
\* existed when the operation started, and the paths the other worker wrote
\* while this run was under way
NoHistory(before, peer) ==
  [msg |-> "", out |-> <<>>, emits |-> 0, raised |-> FALSE, calls |-> 0,
   exit |-> "none", scale |-> <<>>, wrote |-> {}, before |-> before,
   peer |-> peer]

\* self.worker = None / self.conv_worker = None
NoWorker ==
  [pc |-> "none", url |-> "", stem |-> <<>>, input |-> <<>>, convert |-> FALSE,
   target |-> NoResolution, otype |-> "", file |-> <<>>, height |-> 0,
   h |-> NoHistory({}, {})]

\* a worker whose thread has ended: nothing reads its fields any more
EndedWorker == [NoWorker EXCEPT !.pc = "ended"]

\* DownloadWorker(url, outtmpl, convert, target_resolution, output_type);
\* stem is outtmpl without its '.%(ext)s'
DownloadWorker(url, stem, convert, target, otype, before, peer) ==
  [pc |-> "start", url |-> url, stem |-> stem, input |-> <<>>, convert |-> convert,
   target |-> target, otype |-> otype, file |-> <<>>, height |-> 0,
   h |-> NoHistory(before, peer)]

\* ConvertFileWorker(input_path, output_type, target_resolution)
ConvertFileWorker(input, otype, target, before, peer) ==
  [pc |-> "start", url |-> "", stem |-> <<>>, input |-> input, convert |-> FALSE,
   target |-> target, otype |-> otype, file |-> <<>>, height |-> 0,
   h |-> NoHistory(before, peer)]

(***************************************************************************)
(* The messages of finished_signal (the path a message names is h.out)     *)
(***************************************************************************)
MsgMp3Saved == "MP3 saved"

MsgSkippedLower == "Skipped conversion: source is lower than target. No upscaling."

MsgSkippedEqual == "Skipped conversion: source resolution equals target"

MsgConversionCompleted == "Conversion completed"

MsgDownloadFinished == "Download finished"

MsgErrorDownload == "Error during download/conversion"

MsgNoInput == "Input file does not exist."

MsgAudioSaved == "Audio saved"

MsgAborted == "Conversion aborted: unknown source resolution."

MsgUnknown == "Unknown conversion parameters."

MsgErrorConversion == "Error during conversion"

(***************************************************************************)
(* The steps shared by the two workers                                     *)
(***************************************************************************)
\* self.finished_signal.emit(msg) followed by the return of run
Emit(w, msg, out) ==
  [w EXCEPT !.pc = "emitted", !.h.msg = msg, !.h.out = out, !.h.emits = @ + 1]

\* mutant: the exception leaves run and the thread dies without a signal
ExceptEscapes(w, errMsg) ==
  [w EXCEPT !.pc = "crashed", !.h.raised = TRUE]

\* except Exception as e: self.finished_signal.emit(f"Error during ...: {e}")
Except(w, errMsg) ==
  Emit([w EXCEPT !.h.raised = TRUE], errMsg, <<>>)

\* ffprobe_get_height(path): the height ffprobe (or the ffmpeg fallback)
\* prints, 0 when both calls fail or print nothing
ffprobe_get_height(path) ==
  {0} \cup (IF Exists(path) THEN {disk[path]} ELSE {})

\* the outcomes of `ffmpeg -i input ... -y out`: ffmpeg refuses an output that
\* is its input and exits with an error
FfmpegRun(input, out) ==
  IF input = out THEN FfmpegOutcomes \ {"ok"} ELSE FfmpegOutcomes

\* the paths an ffmpeg call with outcome o writes
FfmpegWrites(o, out) ==
  IF o = "ok" THEN {out} ELSE {}

\* the disk after `ffmpeg ... -y out` ended with outcome o; hOut is the
\* height of a complete output
FfmpegDisk(o, out, hOut) ==
  IF o = "ok" THEN Put(disk, out, hOut) ELSE disk

\* the history of worker w after subprocess.run(cmd) with outcome o
FfmpegCalled(w, o, out) ==
  [w EXCEPT !.h.calls = @ + 1,
            !.h.exit  = IF o = "ok" THEN "ok"
                        ELSE IF o = "raise" THEN "none" ELSE "fail",
            !.h.wrote = @ \cup FfmpegWrites(o, out)]

\* subprocess.run(cmd, ...) and the emit that follows it: the exit code is
\* not looked at; only a call that cannot start raises
RunThenEmit(w, o, out, okMsg, errMsg) ==
  IF o = "raise" THEN Except(FfmpegCalled(w, o, out), errMsg)
  ELSE Emit(FfmpegCalled(w, o, out), okMsg, out)

\* the other worker, told of the paths written while its run is under way
PeerSees(other, paths) ==
  IF Active(other) THEN [other EXCEPT !.h.peer = @ \cup paths] ELSE other

\* f"{base}_{target_resolution}p.mp4" with base = os.path.splitext(path)[0]
ScaledPath(path, target) ==
  os_path_splitext(path)[1] \o USCORE \o IntToStr(target) \o <<"p">> \o DOT \o EXT_MP4

\* os.path.splitext(path)[0] + '.mp3' / '.wav'
AudioPath(path, ext) == os_path_splitext(path)[1] \o DOT \o ext

(***************************************************************************)
(* DownloadWorker.run                                                      *)
(***************************************************************************)
\* the branch run takes once final_height is known
DownloadDecision(otype, convert, target, final_height) ==
  IF otype = "MP3" THEN "mp3"
  ELSE IF convert /\ otype = "MP4"
       THEN IF target > final_height /\ final_height > 0 THEN "skip_lower"
            ELSE IF final_height = target THEN "skip_equal"
            ELSE "scale"
  ELSE "plain"

\* ydl.extract_info(url, download=True) and ydl.prepare_filename(info): the
\* call raises, or the file <stem>.<ext> exists afterwards (an existing file
\* of that name is left as it is) and info['height'] is its height or absent
DlDownload ==
  /\ dl.pc = "start"
  /\ \/ /\ dl' = Except([dl EXCEPT !.h.calls = @ + 1], MsgErrorDownload)
        /\ UNCHANGED <<disk, cv>>
     \/ LET info    == VideoInfo(dl.url)
              file    == dl.stem \o DOT \o info.ext
              created == IF Exists(file) THEN {} ELSE {file}
              disk2   == IF Exists(file) THEN disk ELSE Put(disk, file, info.height)
          IN  /\ disk' = disk2
              /\ dl' = [dl EXCEPT !.pc = "fetched", !.file = file,
                                  !.height = IF info.has_height THEN info.height ELSE 0,
                                  !.h.calls = @ + 1,
                                  !.h.wrote = @ \cup created]
              /\ cv' = PeerSees(cv, created)
  /\ dlPending' = dlPending + (dl'.h.emits - dl.h.emits)
  /\ UNCHANGED <<cvPending, guiVars, muVars>>

\* final_height = info.get('height') or ffprobe_get_height(downloaded_file)
DlProbe ==
  /\ dl.pc = "fetched"
  /\ \E fh \in (IF dl.height # 0 THEN {dl.height} ELSE ffprobe_get_height(dl.file)) :
       dl' = [dl EXCEPT !.pc = "probed", !.height = fh,
                        !.h.calls = IF dl.height # 0 THEN @ ELSE @ + 1]
  /\ UNCHANGED <<disk, cv, dlPending, cvPending, guiVars, muVars>>

\* the rest of run: the MP3 conversion, the resolution conversion or neither
DlFinish ==
  /\ dl.pc = "probed"
  /\ LET d == DownloadDecision(dl.otype, dl.convert, dl.target, dl.height)
     IN  CASE d = "mp3" ->
                LET mp3_path == AudioPath(dl.file, EXT_MP3)
                IN  \E o \in FfmpegRun(dl.file, mp3_path) :
                      /\ disk' = FfmpegDisk(o, mp3_path, 0)
                      /\ dl' = RunThenEmit(dl, o, mp3_path, MsgMp3Saved, MsgErrorDownload)
                      /\ cv' = PeerSees(cv, FfmpegWrites(o, mp3_path))
            [] d = "skip_lower" ->
                /\ dl' = Emit(dl, MsgSkippedLower, <<>>)
                /\ UNCHANGED <<disk, cv>>
            [] d = "skip_equal" ->
                /\ dl' = Emit(dl, MsgSkippedEqual, <<>>)
                /\ UNCHANGED <<disk, cv>>
            [] d = "scale" ->
                \E o \in FfmpegRun(dl.file, ScaledPath(dl.file, dl.target)) :
                  LET out_file == ScaledPath(dl.file, dl.target)
                      src      == IF Exists(dl.file) THEN disk[dl.file] ELSE 0
                      w        == IF o = "raise" THEN dl
                                  ELSE [dl EXCEPT !.h.scale = <<dl.target, src>>]
                  IN  /\ disk' = FfmpegDisk(o, out_file, dl.target)
                      /\ dl' = RunThenEmit(w, o, out_file, MsgConversionCompleted,
                                           MsgErrorDownload)
                      /\ cv' = PeerSees(cv, FfmpegWrites(o, out_file))
            [] OTHER ->
                /\ dl' = Emit(dl, MsgDownloadFinished, dl.file)
                /\ UNCHANGED <<disk, cv>>
  /\ dlPending' = dlPending + (dl'.h.emits - dl.h.emits)
  /\ UNCHANGED <<cvPending, guiVars, muVars>>

\* run has returned: the thread ends
DlThreadEnd ==
  /\ dl.pc = "emitted"
  /\ dl' = EndedWorker
  /\ UNCHANGED <<disk, cv, dlPending, cvPending, guiVars, muVars>>

(***************************************************************************)
(* ConvertFileWorker.run                                                   *)
(***************************************************************************)
\* mutant: the test for an equal resolution is missing
ConvertDecisionNoEqual(target, src_height) ==
  IF src_height = 0 THEN "abort"
  ELSE IF target = NoResolution THEN "raise"
  ELSE IF target > src_height THEN "skip_lower"
  ELSE "scale"

\* the branch run takes for output type MP4 once src_height is known
ConvertDecision(target, src_height) ==
  IF src_height = 0 THEN "abort"
  ELSE IF target = NoResolution THEN "raise"    \* None > int: TypeError
  ELSE IF target > src_height THEN "skip_lower"
  ELSE IF target = src_height THEN "skip_equal"
  ELSE "scale"

\* the existence check, then the audio conversion or the height detection
CvStart ==
  /\ cv.pc = "start"
  /\ IF ~Exists(cv.input)
     THEN /\ cv' = Emit(cv, MsgNoInput, <<>>)
          /\ UNCHANGED <<disk, dl>>
     ELSE IF cv.otype \in {"MP3", "WAV"}
     THEN LET out_path == AudioPath(cv.input, IF cv.otype = "MP3" THEN EXT_MP3 ELSE EXT_WAV)
          IN  \E o \in FfmpegRun(cv.input, out_path) :
                /\ disk' = FfmpegDisk(o, out_path, 0)
                /\ cv' = RunThenEmit(cv, o, out_path, MsgAudioSaved, MsgErrorConversion)
                /\ dl' = PeerSees(dl, FfmpegWrites(o, out_path))
     ELSE IF cv.otype = "MP4"
     THEN /\ \E src_height \in ffprobe_get_height(cv.input) :
               cv' = [cv EXCEPT !.pc = "probed", !.height = src_height,
                                !.h.calls = @ + 1]
          /\ UNCHANGED <<disk, dl>>
     ELSE /\ cv' = Emit(cv, MsgUnknown, <<>>)
          /\ UNCHANGED <<disk, dl>>
  /\ cvPending' = cvPending + (cv'.h.emits - cv.h.emits)
  /\ UNCHANGED <<dlPending, guiVars, muVars>>

\* the rest of run for output type MP4
CvFinish ==
  /\ cv.pc = "probed"
  /\ LET d == ConvertDecision(cv.target, cv.height)
     IN  CASE d = "abort" ->
                /\ cv' = Emit(cv, MsgAborted, <<>>)
                /\ UNCHANGED <<disk, dl>>
            [] d = "raise" ->
                /\ cv' = Except(cv, MsgErrorConversion)
                /\ UNCHANGED <<disk, dl>>
            [] d = "skip_lower" ->
                /\ cv' = Emit(cv, MsgSkippedLower, <<>>)
                /\ UNCHANGED <<disk, dl>>
            [] d = "skip_equal" ->
                /\ cv' = Emit(cv, MsgSkippedEqual, <<>>)
                /\ UNCHANGED <<disk, dl>>
            [] OTHER ->
                \E o \in FfmpegRun(cv.input, ScaledPath(cv.input, cv.target)) :
                  LET out_path == ScaledPath(cv.input, cv.target)
                      src      == IF Exists(cv.input) THEN disk[cv.input] ELSE 0
                      w        == IF o = "raise" THEN cv
                                  ELSE [cv EXCEPT !.h.scale = <<cv.target, src>>]
                  IN  /\ disk' = FfmpegDisk(o, out_path, cv.target)
                      /\ cv' = RunThenEmit(w, o, out_path, MsgConversionCompleted,
                                           MsgErrorConversion)
                      /\ dl' = PeerSees(dl, FfmpegWrites(o, out_path))
  /\ cvPending' = cvPending + (cv'.h.emits - cv.h.emits)
  /\ UNCHANGED <<dlPending, guiVars, muVars>>

\* run has returned: the thread ends
CvThreadEnd ==
  /\ cv.pc = "emitted"
  /\ cv' = EndedWorker
  /\ UNCHANGED <<disk, dl, dlPending, cvPending, guiVars, muVars>>

(***************************************************************************)
(* MainWindow: the two buttons and the handlers of finished_signal         *)
(***************************************************************************)
\* the writes of the other worker's run that a run starting now overlaps
PeerAtStart(other) == IF Active(other) THEN other.h.wrote ELSE {}

\* on_download, past its early returns (a URL was given and the metadata
\* were fetched): sel is the item of output_combo, checked convert_checkbox,
\* res the item of resolution_combo
on_download(url, sel, checked, res) ==
  /\ download_btn
  /\ nDownloads + nConverts < MaxClicks
  /\ LET info          == VideoInfo(url)
         base          == info.base
         vid           == info.id
         predicted     == os_path_join(SaveDir, base \o DOT \o info.ext)
         pred_name     == os_path_split(predicted)[2]
         pred_ext      == os_path_splitext(pred_name)[2]
         ext           == IF LStripDot(pred_ext) # <<>> THEN LStripDot(pred_ext)
                          ELSE EXT_MP4
         final_path    == make_unique_filepath(SaveDir, base, ext, SomeId(vid),
                                               DOMAIN disk)
         final_base    == os_path_splitext(os_path_basename(final_path))[1]
         final_outtmpl == os_path_join(SaveDir, final_base)
         output_type   == IF sel = "Audio (MP3)" THEN "MP3" ELSE "MP4"
         convert       == checked /\ output_type = "MP4"
     IN  dl' = DownloadWorker(url, final_outtmpl, convert, res, output_type,
                              DOMAIN disk, PeerAtStart(cv))
  /\ download_btn' = FALSE
  /\ dlLinger' = IF Alive(dl) THEN dlLinger + 1 ELSE dlLinger
  /\ nDownloads' = nDownloads + 1
  /\ UNCHANGED <<disk, cv, convert_file_btn, dlPending, cvPending, cvLinger,
                 nConverts, muVars>>

\* mutant: the handler logs the message and leaves the button disabled
on_worker_finished_logs_only ==
  /\ dlPending > 0
  /\ dlPending' = dlPending - 1
  /\ UNCHANGED <<disk, dl, cv, download_btn, convert_file_btn, cvPending, dlLinger,
                 cvLinger, nDownloads, nConverts, muVars>>

\* on_worker_finished(msg), run in the GUI thread for a queued emission
on_worker_finished ==
  /\ dlPending > 0
  /\ dlPending' = dlPending - 1
  /\ download_btn' = TRUE
  /\ UNCHANGED <<disk, dl, cv, convert_file_btn, cvPending, dlLinger, cvLinger,
                 nDownloads, nConverts, muVars>>

\* on_convert_file, past its early returns (the path is not empty and
\* exists): sel is the item of conv_output_combo, res of conv_res_combo
on_convert_file(path, sel, res) ==
  /\ convert_file_btn
  /\ nDownloads + nConverts < MaxClicks
  /\ Exists(path)
  /\ LET out_type == IF sel = "MP4 (Video)" THEN "MP4"
                     ELSE IF sel = "MP3 (Audio)" THEN "MP3" ELSE "WAV"
     IN  cv' = ConvertFileWorker(path, out_type,
                                 IF out_type = "MP4" THEN res ELSE NoResolution,
                                 DOMAIN disk, PeerAtStart(dl))
  /\ convert_file_btn' = FALSE
  /\ cvLinger' = IF Alive(cv) THEN cvLinger + 1 ELSE cvLinger
  /\ nConverts' = nConverts + 1
  /\ UNCHANGED <<disk, dl, download_btn, dlPending, cvPending, dlLinger,
                 nDownloads, muVars>>

\* on_conv_finished(msg), run in the GUI thread for a queued emission
on_conv_finished ==
  /\ cvPending > 0
  /\ cvPending' = cvPending - 1
  /\ convert_file_btn' = TRUE
  /\ UNCHANGED <<disk, dl, cv, download_btn, dlPending, dlLinger, cvLinger,
                 nDownloads, nConverts, muVars>>

\* a DownloadWorker thread that self.worker no longer names ends
DlLingerEnd ==
  /\ dlLinger > 0
  /\ dlLinger' = dlLinger - 1
  /\ UNCHANGED <<disk, dl, cv, download_btn, convert_file_btn, dlPending,
                 cvPending, cvLinger, nDownloads, nConverts, muVars>>

\* a ConvertFileWorker thread that self.conv_worker no longer names ends
CvLingerEnd ==
  /\ cvLinger > 0
  /\ cvLinger' = cvLinger - 1
  /\ UNCHANGED <<disk, dl, cv, download_btn, convert_file_btn, dlPending,
                 cvPending, dlLinger, nDownloads, nConverts, muVars>>

(***************************************************************************)
(* The application: Spec                                                   *)
(***************************************************************************)
\* the files the save folder may hold when the application starts
InitFiles ==
  Put(Put(EmptyDisk, os_path_join(SaveDir, <<"a">> \o DOT \o EXT_MP4), 1080),
      os_path_join(SaveDir, <<"a">> \o DOT \o EXT_MP3), 0)

InitialDisks == {[p \in S |-> InitFiles[p]] : S \in SUBSET DOMAIN InitFiles}

\* the target resolutions a ConvertFileWorker is constructed with
ResolutionChoices == {720, 1080}

NoCall == [save_dir |-> <<>>, base |-> <<>>, ext |-> <<>>, id |-> NoneId, existing |-> {}]

Init ==
  /\ disk = InitFiles
  /\ dl = NoWorker
  /\ cv = NoWorker
  /\ download_btn = TRUE
  /\ convert_file_btn = TRUE
  /\ dlPending = 0
  /\ cvPending = 0
  /\ dlLinger = 0
  /\ cvLinger = 0
  /\ nDownloads = 0
  /\ nConverts = 0
  /\ mu_args = NoCall
  /\ mu_result = <<>>

WorkerNext ==
  \/ DlDownload
  \/ DlProbe
  \/ DlFinish
  \/ DlThreadEnd
  \/ CvStart
  \/ CvFinish
  \/ CvThreadEnd

\* the settings of the download row that are tried: output_combo,
\* convert_checkbox and resolution_combo (at its default, 1080, for MP3)
DownloadSettings ==
  {<<"Audio (MP3)", FALSE, 1080>>, <<"Video (MP4)", TRUE, 720>>}

Click_on_download ==
  \E url \in PastedUrls, set \in DownloadSettings :
    on_download(url, set[1], set[2], set[3])

\* the settings of the convert row that are tried: conv_output_combo and
\* conv_res_combo (at its default, 1080, for MP3)
ConvertSettings ==
  {<<"MP3 (Audio)", 1080>>, <<"MP4 (Video)", 720>>}

Click_on_convert_file ==
  \E path \in DOMAIN disk, set \in ConvertSettings :
    on_convert_file(path, set[1], set[2])

Next ==
  \/ Click_on_download
  \/ Click_on_convert_file
  \/ on_worker_finished
  \/ on_conv_finished
  \/ DlLingerEnd
  \/ CvLingerEnd
  \/ WorkerNext

Spec == Init /\ [][Next]_vars

(***************************************************************************)
(* The workers alone: WorkerSpec.  One DownloadWorker and one              *)
(* ConvertFileWorker, constructed with any arguments, run side by side.    *)
(***************************************************************************)
\* outtmpl stems a DownloadWorker may be given
WorkerStems == {os_path_join(SaveDir, <<"a">>), os_path_join(SaveDir, <<"a", "_", "x">>)}

\* input paths a ConvertFileWorker may be given; the last one never exists
WorkerInputs == DOMAIN InitFiles \cup {os_path_join(SaveDir, <<"n">> \o DOT \o EXT_MP4)}

WorkerInit ==
  /\ disk \in InitialDisks
  /\ \E url \in Urls, stem \in WorkerStems, convert \in BOOLEAN,
        target \in Resolutions, otype \in DownloadTypes :
       dl = DownloadWorker(url, stem, convert, target, otype, DOMAIN disk, {})
  /\ \E input \in WorkerInputs, otype \in ConvertTypes \cup {"FLAC"},
        target \in ResolutionChoices \cup {NoResolution} :
       cv = ConvertFileWorker(input, otype, target, DOMAIN disk, {})
  /\ download_btn = FALSE
  /\ convert_file_btn = FALSE
  /\ dlPending = 0
  /\ cvPending = 0
  /\ dlLinger = 0
  /\ cvLinger = 0
  /\ nDownloads = 1
  /\ nConverts = 1
  /\ mu_args = NoCall
  /\ mu_result = <<>>

WorkerSpec == WorkerInit /\ [][WorkerNext]_vars

(***************************************************************************)
(* make_unique_filepath alone: UniqueSpec                                  *)
(***************************************************************************)
MuSaveDirs == {SaveDir, SaveDir \o <<SEP>>}

MuBases == {<<"a">>, <<SEP, "a">>}

MuExts == {EXT_MP4, <<SEP, "m">>}

MuIds == {NoneId, SomeId(<<>>), SomeId(<<"x">>), SomeId(<<"1">>), SomeId(<<SEP, "x">>)}

\* the names the function may look at, any of which may exist
MuUniverse(save_dir, base, ext, id) ==
  {PlainCandidate(save_dir, base, ext)}
  \cup (IF id.none THEN {} ELSE {IdCandidate(save_dir, base, ext, id.s)})
  \cup {NumCandidate(save_dir, base, ext, i) : i \in 1..MaxSuffix}

MuExisting(save_dir, base, ext, id) ==
  SUBSET MuUniverse(save_dir, base, ext, id)
  \cup {{PlainCandidate(save_dir, base, ext)}
        \cup {NumCandidate(save_dir, base, ext, i) : i \in 1..ManyTaken}}

UniqueInit ==
  /\ disk = InitFiles
  /\ dl = NoWorker
  /\ cv = NoWorker
  /\ download_btn = TRUE
  /\ convert_file_btn = TRUE
  /\ dlPending = 0
  /\ cvPending = 0
  /\ dlLinger = 0
  /\ cvLinger = 0
  /\ nDownloads = 0
  /\ nConverts = 0
  /\ \E save_dir \in MuSaveDirs, base \in MuBases, ext \in MuExts, id \in MuIds :
       \E existing \in MuExisting(save_dir, base, ext, id) :
         mu_args = [save_dir |-> save_dir, base |-> base, ext |-> ext, id |-> id,
                    existing |-> existing]
  /\ mu_result = <<>>

\* final_path = make_unique_filepath(save_dir, base_filename, ext, fallback_id)
CallMakeUnique ==
  /\ mu_result = <<>>
  /\ mu_result' = make_unique_filepath(mu_args.save_dir, mu_args.base, mu_args.ext,
                                       mu_args.id, mu_args.existing)
  /\ UNCHANGED <<mu_args, appVars>>

UniqueSpec == UniqueInit /\ [][CallMakeUnique]_vars

(***************************************************************************)
(* The application under fair scheduling: FairSpec.  A started thread is   *)
(* scheduled, every external call returns, and the event loop of the GUI   *)
(* thread delivers queued signals; nobody has to click.                    *)
(***************************************************************************)
FairSpec ==
  /\ Spec
  /\ WF_vars(DlDownload)
  /\ WF_vars(DlProbe)
  /\ WF_vars(DlFinish)
  /\ WF_vars(CvStart)
  /\ WF_vars(CvFinish)
  /\ WF_vars(on_worker_finished)
  /\ WF_vars(on_conv_finished)

(***************************************************************************)
(* Properties                                                              *)
(***************************************************************************)
Workers == {dl, cv}

\* C1: the scaling conversion is never invoked with a target resolution
\* greater than the real height of the source video, also when the height
\* could not be detected.
NoUpscale ==
  \A w \in Workers : w.h.scale # <<>> => w.h.scale[1] <= w.h.scale[2]

\* C2: no operation writes or replaces a file that existed before the
\* operation started.
NoOverwrite ==
  \A w \in Workers : w.h.wrote \cap w.h.before = {}

EndsWith(p, suffix) ==
  /\ Len(p) >= Len(suffix)
  /\ SubSeq(p, Len(p) - Len(suffix) + 1, Len(p)) = suffix

\* the directory of p is save_dir
InsideDir(p, save_dir) ==
  os_path_split(p)[1] = os_path_split(os_path_join(save_dir, <<"f">>))[1]

NoSeparator(str) == \A k \in 1..Len(str) : str[k] # SEP

MuReturned == mu_result # <<>>

\* C3 as stated: for every save_dir, base_filename, ext and fallback_id the
\* returned path is inside save_dir, ends with '.<ext>' and does not exist.
UniquePathAnyName ==
  MuReturned =>
    /\ InsideDir(mu_result, mu_args.save_dir)
    /\ EndsWith(mu_result, DOT \o mu_args.ext)
    /\ mu_result \notin mu_args.existing

\* C3 (amended): when base_filename, ext and fallback_id contain no path
\* separator, the returned path is inside save_dir, ends with '.<ext>' and
\* does not exist; with a separator it still ends with '.<ext>' and does not
\* exist.
UniquePath ==
  MuReturned =>
    /\ EndsWith(mu_result, DOT \o mu_args.ext)
    /\ mu_result \notin mu_args.existing
    /\ (NoSeparator(mu_args.base) /\ NoSeparator(mu_args.ext)
        /\ NoSeparator(mu_args.id.s))
       => InsideDir(mu_result, mu_args.save_dir)

\* a call with plain names that found the plain name and the id name taken
UniquePathWitness ==
  /\ MuReturned
  /\ NoSeparator(mu_args.base) /\ NoSeparator(mu_args.ext) /\ NoSeparator(mu_args.id.s)
  /\ Truthy(mu_args.id)
  /\ PlainCandidate(mu_args.save_dir, mu_args.base, mu_args.ext) \in mu_args.existing
  /\ IdCandidate(mu_args.save_dir, mu_args.base, mu_args.ext, mu_args.id.s)
       \in mu_args.existing

\* C4: every exception raised in DownloadWorker.run or ConvertFileWorker.run
\* is caught there and reported once through finished_signal as an
\* 'Error during ...' message, no thread dies of an exception, and a missing
\* input file is reported as 'Input file does not exist.' without any
\* external call.
ErrorsCaught ==
  /\ \A w \in Workers : w.pc # "crashed"
  /\ dl.h.raised => dl.pc = "emitted" /\ dl.h.emits = 1 /\ dl.h.msg = MsgErrorDownload
  /\ cv.h.raised => cv.pc = "emitted" /\ cv.h.emits = 1 /\ cv.h.msg = MsgErrorConversion
  /\ (cv.pc = "emitted" /\ ~Exists(cv.input))
     => cv.h.msg = MsgNoInput /\ cv.h.calls = 0 /\ cv.h.wrote = {}

\* the download failed and the conversion had no target resolution
ErrorsCaughtWitness ==
  /\ dl.h.raised /\ dl.h.calls = 1
  /\ cv.h.raised /\ cv.target = NoResolution

\* C5: a DownloadWorker run and a ConvertFileWorker run that overlap never
\* write the same output path (the part of the independence claim that a
\* state can show).
WorkersIndependent ==
  \A w \in Workers : w.h.wrote \cap w.h.peer = {}

\* C6: a worker emits finished_signal exactly once on every path of run, and
\* a button that was disabled for a worker is eventually enabled again.
EveryWorkerReleases ==
  /\ [](\A w \in Workers :
          /\ w.pc # "crashed"
          /\ Active(w) => w.h.emits = 0
          /\ w.pc = "emitted" => w.h.emits = 1)
  /\ [](dlPending <= 1 /\ cvPending <= 1)
  /\ (~download_btn) ~> download_btn
  /\ (~convert_file_btn) ~> convert_file_btn

\* the Download button is enabled again after a run that ended in an exception
EveryWorkerReleasesWitness ==
  /\ download_btn
  /\ dl.pc = "emitted"
  /\ dl.h.raised

DlThreads == dlLinger + (IF Alive(dl) THEN 1 ELSE 0)

CvThreads == cvLinger + (IF Alive(cv) THEN 1 ELSE 0)

\* C7: at most one DownloadWorker thread and at most one ConvertFileWorker
\* thread is alive.
AtMostOneThreadPerKind ==
  DlThreads <= 1 /\ CvThreads <= 1

\* C8: make_unique_filepath returns '<base>.<ext>' if it is free; otherwise
\* '<base>_<fallback_id>.<ext>' if a non-empty fallback_id was given and that
\* path is free; otherwise '<base>_<i>.<ext>' for the smallest i >= 1 whose
\* path is free.
FirstFreeCandidate ==
  LET a      == mu_args
      E      == a.existing
      plain  == PlainCandidate(a.save_dir, a.base, a.ext)
      idname == IdCandidate(a.save_dir, a.base, a.ext, a.id.s)
      byId   == ~a.id.none /\ a.id.s # <<>> /\ idname \notin E
      Num(i) == NumCandidate(a.save_dir, a.base, a.ext, i)
  IN  MuReturned =>
        /\ plain \notin E => mu_result = plain
        /\ (plain \in E /\ byId) => mu_result = idname
        /\ (plain \in E /\ ~byId) =>
             \E i \in 1..(Cardinality(E) + 1) :
               /\ mu_result = Num(i)
               /\ Num(i) \notin E
               /\ \A j \in 1..(i - 1) : Num(j) \in E

\* a call with an empty fallback id that had to pass <base>_1 and <base>_2
FirstFreeCandidateWitness ==
  /\ MuReturned
  /\ mu_args.id = SomeId(<<>>)
  /\ mu_result = NumCandidate(mu_args.save_dir, mu_args.base, mu_args.ext, 3)

\* the ConvertFileWorker found its input, looked for its height and has
\* finished a run for MP4
CvMp4Done == cv.pc = "emitted" /\ cv.otype = "MP4" /\ cv.h.calls >= 1

SuccessMessages == {MsgMp3Saved, MsgAudioSaved, MsgConversionCompleted}

\* C10: a worker emits 'MP3 saved', 'Audio saved' or 'Conversion completed'
\* only if the ffmpeg call it started ended successfully and the output file
\* it names exists.
SuccessOnlyAfterSuccess ==
  \A w \in Workers :
    w.h.msg \in SuccessMessages => w.h.exit = "ok" /\ Exists(w.h.out)


\* the file a worker's ffmpeg command reads: downloaded_file in
\* DownloadWorker.run, self.input_path in ConvertFileWorker.run
FfmpegInput(w) == IF w.input # <<>> THEN w.input ELSE w.file

\* C11: the output path a worker passes to ffmpeg (base + '.mp3',
\* base + '.wav' or base + '_<resolution>p.mp4') differs from the path of the
\* file the command reads, also when the input already has the extension of
\* the requested output type.
OutputDiffersFromInput ==
  \A w \in Workers :
    w.h.msg \in SuccessMessages => w.h.out # FfmpegInput(w)

====
